---------------------------- MODULE Spec2Model ----------------------------
(***************************************************************************)
(* Model of the frequent-question pipeline of src/main.py:                 *)
(*   extract_questions -> normalize_question -> model.encode ->            *)
(*   analyze_frequent_questions, driven by analyze_question_papers.        *)
(*                                                                         *)
(* Text is a sequence of lexical atoms.  An atom is a maximal piece of     *)
(* text that every regular expression of the source treats as a unit: a    *)
(* run of letters, a run of digits, one whitespace character or one        *)
(* punctuation character.  Two adjacent word atoms (letters or digits)     *)
(* form one longer word, so no \b lies between them.                       *)
(* Pool positions are 1-based here (Python's index i is position i + 1).   *)
(***************************************************************************)
EXTENDS Integers, Sequences, FiniteSets, TLC

(***************************************************************************)
(* Bounds of the model.                                                    *)
(***************************************************************************)
MaxLen == 4
MaxLines == 2
MaxFiles == 2
MaxRunPool == 4
MaxPool == 5

(***************************************************************************)
(* Atoms and character classes.                                            *)
(***************************************************************************)
NL == "\n"
SpaceAtoms == {" ", NL}
PunctAtoms == {"?", ".", "(", ")", "-", "*", "+", "'"}
DigitAtoms == {"1", "5", "10", "1999", "2020"}
\* (19|20)\d{2}: the digit atoms that are a four-digit year on their own.
\* No concatenation of two or more digit atoms above is such a year.
YearAtoms == {"1999", "2020"}
\* [\d\)\.\-\*\+\s]
EnumClass == DigitAtoms \cup {")", ".", "-", "*", "+"} \cup SpaceAtoms

IsSpace(a) == a \in SpaceAtoms
IsWordAtom(a) == a \notin SpaceAtoms /\ a \notin PunctAtoms

\* str.lower() on one atom
LowerAtom(a) ==
    CASE a = "What" -> "what"
      [] a = "Define" -> "define"
      [] a = "Explain" -> "explain"
      [] a = "State" -> "state"
      [] a = "Notes" -> "notes"
      [] a = "Short" -> "short"
      [] a = ".PDF" -> ".pdf"
      [] OTHER -> a

lower(s) == [k \in 1..Len(s) |-> LowerAtom(s[k])]

RECURSIVE CharLen(_)
\* len(s) in characters
CharLen(s) == IF s = <<>> THEN 0 ELSE Len(Head(s)) + CharLen(Tail(s))

RECURSIVE LStrip(_)
LStrip(s) == IF s # <<>> /\ IsSpace(Head(s)) THEN LStrip(Tail(s)) ELSE s

RECURSIVE RStrip(_)
RStrip(s) ==
    IF s # <<>> /\ IsSpace(s[Len(s)]) THEN RStrip(SubSeq(s, 1, Len(s) - 1)) ELSE s

\* str.strip()
strip(s) == RStrip(LStrip(s))

\* str.endswith('?')
EndsWithQ(s) == s # <<>> /\ s[Len(s)] = "?"

\* \b between position k and k + 1 of s (k in 0..Len(s))
IsWordAt(s, k) == k \in 1..Len(s) /\ IsWordAtom(s[k])
Boundary(s, k) == IsWordAt(s, k) # IsWordAt(s, k + 1)

(***************************************************************************)
(* Regular expressions over atoms.  A pattern is a sequence of items:      *)
(*   [t |-> "b"]            \b                                             *)
(*   [t |-> "lit", s |-> S] one atom of S (an alternation of words)        *)
(*   [t |-> "plus", s |-> S] one or more atoms of S, greedy                *)
(*   [t |-> "star", s |-> S] zero or more atoms of S, greedy               *)
(*   [t |-> "opt", s |-> S] (w\s+)? for a word w of S, greedy              *)
(* MatchFrom gives the position of the last atom matched when the items    *)
(* k.. of pat match s from position p on (p - 1 for an empty match), and   *)
(* -1 when they do not; greedy items backtrack as re does.                 *)
(***************************************************************************)
B == [t |-> "b"]
Lit(S) == [t |-> "lit", s |-> S]
Plus(S) == [t |-> "plus", s |-> S]
Star(S) == [t |-> "star", s |-> S]
Opt(S) == [t |-> "opt", s |-> S]
W(w) == Lit({w})
Sp == Lit({" "})

RECURSIVE RunEnd(_, _, _)
\* last position of the run of atoms of S that starts at p (p - 1 if none)
RunEnd(s, p, S) ==
    IF p <= Len(s) /\ s[p] \in S THEN RunEnd(s, p + 1, S) ELSE p - 1

SetMax(S) == CHOOSE m \in S : \A n \in S : n <= m

RECURSIVE MatchFrom(_, _, _, _)
MatchFrom(pat, k, s, p) ==
    IF k > Len(pat) THEN p - 1
    ELSE LET it == pat[k] IN
      CASE it.t = "b" ->
             IF Boundary(s, p - 1) THEN MatchFrom(pat, k + 1, s, p) ELSE -1
        [] it.t = "lit" ->
             IF p <= Len(s) /\ s[p] \in it.s
             THEN MatchFrom(pat, k + 1, s, p + 1) ELSE -1
        [] it.t \in {"plus", "star"} ->
             LET lo == IF it.t = "plus" THEN p ELSE p - 1
                 ok == {e \in lo..RunEnd(s, p, it.s) :
                           MatchFrom(pat, k + 1, s, e + 1) # -1}
             IN IF ok = {} THEN -1 ELSE MatchFrom(pat, k + 1, s, SetMax(ok) + 1)
        [] it.t = "opt" ->
             LET taken == MatchFrom(<<Lit(it.s), Plus(SpaceAtoms)>>, 1, s, p)
                 rest == IF taken = -1 THEN -1
                         ELSE MatchFrom(pat, k + 1, s, taken + 1)
             IN IF rest # -1 THEN rest ELSE MatchFrom(pat, k + 1, s, p)

RECURSIVE MatchAlts(_, _, _, _)
\* (alt1|alt2|...): the first alternative, from index a on, that matches at p
MatchAlts(alts, a, s, p) ==
    IF a > Len(alts) THEN -1
    ELSE LET e == MatchFrom(alts[a], 1, s, p)
         IN IF e # -1 THEN e ELSE MatchAlts(alts, a + 1, s, p)

RECURSIVE SubAll(_, _, _, _)
\* re.sub(alts, repl, s) from position p on: leftmost non-overlapping matches
SubAll(alts, repl, s, p) ==
    IF p > Len(s) THEN <<>>
    ELSE LET e == MatchAlts(alts, 1, s, p)
         IN IF e >= p THEN repl \o SubAll(alts, repl, s, e + 1)
            ELSE <<s[p]>> \o SubAll(alts, repl, s, p + 1)

\* re.sub('^' + alts, repl, s): only a match at the start is replaced
SubStart(alts, repl, s) ==
    LET e == MatchAlts(alts, 1, s, 1)
    IN IF e >= 1 THEN repl \o SubSeq(s, e + 1, Len(s)) ELSE s

\* r'^[\d\)\.\-\*\+\s]+'
EnumPrefix == << <<Plus(EnumClass)>> >>
\* r'\s+'
Whitespace == << <<Plus(SpaceAtoms)>> >>
\* r'\b(19|20)\d{2}\b'
YearPat == << <<B, Lit(YearAtoms), B>> >>
\* r'\b\d+\s*(marks?|points?)\b'
MarksPat ==
    << <<B, Plus(DigitAtoms), Star(SpaceAtoms),
         Lit({"mark", "marks", "point", "points"}), B>> >>
\* r'\b(briefly|short|detail|detailed|long)\b'
FillerPat == << <<B, Lit({"briefly", "short", "detail", "detailed", "long"}), B>> >>
\* r'\b(note on|account of|discussion on)\b'
PhrasePat ==
    << <<B, W("note"), Sp, W("on"), B>>,
       <<B, W("account"), Sp, W("of"), B>>,
       <<B, W("discussion"), Sp, W("on"), B>> >>
\* r'\b(with\s+)?(suitable\s+)?(neat\s+)?(diagram|figure|graph)\b'
DiagramPat ==
    << <<B, Opt({"with"}), Opt({"suitable"}), Opt({"neat"}),
         Lit({"diagram", "figure", "graph"}), B>> >>

\* question_mappings, in dict order: <<alternatives, replacement>>
question_mappings ==
    << << << <<W("what"), Sp, W("is"), B>>,
             <<W("define"), B>>,
             <<W("what"), Sp, W("do"), Sp, W("you"), Sp, W("mean"), Sp, W("by"), B>>,
             <<W("what"), Sp, W("are"), B>> >>,
          <<"what", " ", "is">> >>,
       << << <<Lit({"explain", "describe", "discuss", "elaborate"}), B>> >>,
          <<"explain">> >>,
       << << <<Lit({"state", "mention", "write", "give"}), B>> >>,
          <<"state">> >>,
       << << <<W("how"), B>>,
             <<W("in"), Sp, W("what"), Sp, W("way"), B>> >>,
          <<"how">> >>,
       << << <<W("why"), B>>,
             <<W("what"), Sp, W("is"), Sp, W("the"), Sp, W("reason"), B>> >>,
          <<"why">> >>,
       << << <<Lit({"derive", "obtain"}), B>>,
             <<W("find"), Sp, W("the"), Sp, W("expression"), B>> >>,
          <<"derive">> >>,
       << << <<W("prove"), B>>,
             <<W("show"), Sp, W("that"), B>>,
             <<W("demonstrate"), B>> >>,
          <<"prove">> >>,
       << << <<Lit({"calculate", "compute", "find", "determine"}), B>> >>,
          <<"calculate">> >> >>

RECURSIVE ApplyMappings(_, _)
\* for pattern, replacement in question_mappings.items(): q = re.sub(...)
ApplyMappings(q, k) ==
    IF k > Len(question_mappings) THEN q
    ELSE ApplyMappings(
           SubStart(question_mappings[k][1], question_mappings[k][2], q), k + 1)

\* faulty variant: the leading enumeration is kept
StripEnumSkipped(q) == q

StripEnum(q) == SubStart(EnumPrefix, <<>>, q)
CollapseWs(q) == SubAll(Whitespace, <<" ">>, q, 1)
DropQ(q) == IF EndsWithQ(q) THEN SubSeq(q, 1, Len(q) - 1) ELSE q
AddQ(q) == IF ~EndsWithQ(q) THEN Append(q, "?") ELSE q

(***************************************************************************)
(* normalize_question                                                      *)
(***************************************************************************)
RemoveNoise(q) ==
    LET q5 == SubAll(YearPat, <<>>, q, 1)
        q6 == SubAll(MarksPat, <<>>, q5, 1)
        q7 == SubAll(FillerPat, <<>>, q6, 1)
        q8 == SubAll(PhrasePat, <<>>, q7, 1)
    IN SubAll(DiagramPat, <<>>, q8, 1)

normalize_question(question) ==
    LET q1 == strip(lower(question))
        q2 == DropQ(q1)
        q3 == StripEnum(q2)
        q4 == CollapseWs(q3)
        q9 == RemoveNoise(q4)
        q10 == ApplyMappings(q9, 1)
        q11 == strip(CollapseWs(q10))
    IN AddQ(q11)

(***************************************************************************)
(* extract_questions                                                       *)
(***************************************************************************)
question_starters ==
    {"what", "how", "why", "when", "where", "which", "who", "whose",
     "define", "explain", "describe", "state", "write", "discuss",
     "derive", "prove", "calculate", "find", "determine", "show",
     "compare", "differentiate", "distinguish", "analyze", "evaluate",
     "solve", "compute", "obtain", "draw", "sketch", "plot",
     "list", "enumerate", "mention", "name", "give", "provide"}

Ws1 == Plus(SpaceAtoms)

imperative_patterns ==
    << <<Lit({"state", "write", "give", "list", "mention", "name", "draw", "sketch"}), B>>,
       <<W("write"), Ws1, Opt({"a"}), Opt({"short", "brief"}), W("note"), Ws1, W("on"), B>>,
       <<W("give"), Ws1, Opt({"a"}), Opt({"brief", "short"}), W("account"), Ws1, W("of"), B>>,
       <<W("derive"), Ws1, W("the"), Ws1, Lit({"formula", "equation", "expression"}), B>>,
       <<W("prove"), Ws1, W("that"), B>>,
       <<W("show"), Ws1, W("that"), B>>,
       <<W("find"), Ws1, W("the"), B>>,
       <<W("calculate"), Ws1, W("the"), B>>,
       <<W("determine"), Ws1, W("the"), B>> >>

RECURSIVE SplitFrom(_, _, _)
\* the lines of text from position p on, cur being the line read so far
SplitFrom(text, p, cur) ==
    IF p > Len(text) THEN (IF cur = <<>> THEN <<>> ELSE <<cur>>)
    ELSE IF text[p] = NL THEN <<cur>> \o SplitFrom(text, p + 1, <<>>)
    ELSE SplitFrom(text, p + 1, Append(cur, text[p]))

\* str.splitlines()
splitlines(text) == SplitFrom(text, 1, <<>>)

\* clean_line.split()[0] of a stripped, non-empty clean_line
FirstToken(s) == SubSeq(s, 1, RunEnd(s, 1, {s[k] : k \in 1..Len(s)} \ SpaceAtoms))

\* the questions one line contributes (none or one)
QuestionsOfLine(rawline) ==
    LET line == strip(rawline)
        clean_line == strip(StripEnum(line))
        first_word == IF clean_line = <<>> THEN <<>> ELSE lower(FirstToken(clean_line))
    IN IF line = <<>> \/ CharLen(line) < 5 \/ CharLen(line) > 300 THEN <<>>
       ELSE IF clean_line = <<>> THEN <<>>
       ELSE IF EndsWithQ(line) THEN <<line>>
       ELSE IF Len(first_word) = 1 /\ first_word[1] \in question_starters
            THEN <<AddQ(line)>>
       ELSE IF MatchAlts(imperative_patterns, 1, lower(clean_line), 1) # -1
            THEN <<AddQ(line)>>
       ELSE <<>>

RECURSIVE QuestionsOfLines(_)
QuestionsOfLines(lines) ==
    IF lines = <<>> THEN <<>>
    ELSE QuestionsOfLine(Head(lines)) \o QuestionsOfLines(Tail(lines))

extract_questions(text) == QuestionsOfLines(splitlines(text))

(***************************************************************************)
(* State.                                                                  *)
(***************************************************************************)
VARIABLES
    files,               \* the upload list: file names
    fileIdx,             \* position in the upload list of the file handled next
    all_questions_data,  \* the candidate pool
    processing_results,  \* one entry per file handled
    extraction,          \* what happened to each file handled, and what
                         \* process_pdf returned for it (history)
    pc,                  \* position of the analysis run
    encodeCalls,         \* number of model.encode calls made
    encodeBatch,         \* argument of the last model.encode call
    embeddings,          \* what model.encode returned, as the similarities it fixes
    simCalls,            \* number of util.cos_sim calls made
    groups,              \* groups emitted so far
    used_indices,
    i,                   \* position of the outer loop
    j,                   \* position of the inner loop
    group,               \* the group being built
    returned,            \* what analyze_frequent_questions returned
    response,            \* what analyze_question_papers answered
    nText,       \* text handed to the text functions
    nPc,         \* position of the text-function run
    nOnce,       \* normalize_question(nText)
    nTwice,      \* normalize_question(nOnce)
    nQuestions,  \* extract_questions(nText)
    nQNorm       \* the normalized form of each extracted question

normVars == <<nText, nPc, nOnce, nTwice, nQuestions, nQNorm>>
loopVars == <<groups, used_indices, i, j, group>>
runVars ==
    <<files, fileIdx, all_questions_data, processing_results, extraction, pc, encodeCalls,
      encodeBatch, embeddings, simCalls, groups, used_indices, i, j, group,
      returned, response>>
vars == <<runVars, normVars>>

\* values of variables that are not set yet
NoText == <<>>
NoGroup == [frequency |-> 0]
NoResponse == [status |-> 0]

HasReturned == pc \in {"returned", "responded"}

(***************************************************************************)
(* Inputs of an analysis run.                                              *)
(***************************************************************************)
FileNames == {<<"a", ".pdf">>, <<"b", ".PDF">>, <<"c", ".txt">>}

\* the texts OCR may produce for a document: no, one and two questions
DocTexts ==
    { <<"Notes", " ", "on", " ", "x">>,
      <<"What", " ", "is", " ", "photosynthesis", "?">>,
      <<"1", ".", " ", "Define", " ", "photosynthesis", ".", NL,
        "Explain", " ", "x", " ", "(", "10", " ", "marks", ")">> }

ErrorReasons == {"read failed", "ocr failed"}

\* similarities in hundredths: just below the threshold, and on it
SimValues == {64, 65}
similarity_threshold == 65

Pairs(n) == {pr \in (1..n) \X (1..n) : pr[1] < pr[2]}

\* file.filename.lower().endswith('.pdf')
IsPdf(filename) ==
    LET l == lower(filename) IN l # <<>> /\ l[Len(l)] = ".pdf"

(***************************************************************************)
(* process_pdf, after OCR returned text                                    *)
(***************************************************************************)
process_pdf(text, filename) ==
    LET raw_questions == extract_questions(text)
    IN [k \in 1..Len(raw_questions) |->
          [original |-> raw_questions[k],
           normalized |-> normalize_question(raw_questions[k]),
           source_file |-> filename,
           question_id |-> <<filename, k>>]]

(***************************************************************************)
(* analyze_question_papers: the loop over the upload list                  *)
(***************************************************************************)
SkippedEntry(filename) ==
    [filename |-> filename, status |-> "skipped", reason |-> "Not a PDF file"]

SuccessEntry(filename, questions) ==
    [filename |-> filename, status |-> "success", questions_found |-> Len(questions)]

\* faulty variant: a failed document is reported as skipped
ErrorEntryAsSkipped(filename, reason) ==
    [filename |-> filename, status |-> "skipped", reason |-> reason]

ErrorEntry(filename, reason) ==
    [filename |-> filename, status |-> "error", reason |-> reason]

\* if not files: raise HTTPException(400)
RejectNoFiles ==
    /\ pc = "start" /\ files = <<>>
    /\ response' = [status |-> 400, detail |-> "No files uploaded"]
    /\ pc' = "failed"
    /\ UNCHANGED <<files, fileIdx, all_questions_data, processing_results,
                   extraction, encodeCalls, encodeBatch, embeddings, simCalls,
                   loopVars, returned, normVars>>

AcceptFiles ==
    /\ pc = "start" /\ files # <<>>
    /\ pc' = "files"
    /\ UNCHANGED <<files, fileIdx, all_questions_data, processing_results,
                   extraction, encodeCalls, encodeBatch, embeddings, simCalls,
                   loopVars, returned, response, normVars>>

SkipNonPdf ==
    /\ pc = "files" /\ fileIdx <= Len(files)
    /\ ~IsPdf(files[fileIdx])
    /\ processing_results' = Append(processing_results, SkippedEntry(files[fileIdx]))
    /\ extraction' = Append(extraction, [kind |-> "notpdf"])
    /\ fileIdx' = fileIdx + 1
    /\ UNCHANGED <<files, all_questions_data, pc, encodeCalls, encodeBatch,
                   embeddings, simCalls, loopVars, returned, response, normVars>>

\* read, OCR and extraction succeed
ProcessPdf ==
    /\ pc = "files" /\ fileIdx <= Len(files)
    /\ IsPdf(files[fileIdx])
    /\ \E text \in DocTexts :
         LET questions == process_pdf(text, files[fileIdx]) IN
         /\ Len(all_questions_data) + Len(questions) <= MaxRunPool
         /\ all_questions_data' = all_questions_data \o questions
         /\ processing_results' =
               Append(processing_results, SuccessEntry(files[fileIdx], questions))
         /\ extraction' = Append(extraction, [kind |-> "ok", questions |-> questions])
    /\ fileIdx' = fileIdx + 1
    /\ UNCHANGED <<files, pc, encodeCalls, encodeBatch, embeddings, simCalls,
                   loopVars, returned, response, normVars>>

\* file.read() or process_pdf raises: except Exception
ProcessPdfRaises ==
    /\ pc = "files" /\ fileIdx <= Len(files)
    /\ IsPdf(files[fileIdx])
    /\ \E reason \in ErrorReasons :
         processing_results' =
            Append(processing_results, ErrorEntry(files[fileIdx], reason))
    /\ extraction' = Append(extraction, [kind |-> "raised"])
    /\ fileIdx' = fileIdx + 1
    /\ UNCHANGED <<files, all_questions_data, pc, encodeCalls, encodeBatch,
                   embeddings, simCalls, loopVars, returned, response, normVars>>

EmptyResponse(results) ==
    [status |-> 200,
     message |-> "No questions found in uploaded files",
     processing_results |-> results,
     frequent_questions |-> <<>>]

\* if not all_questions_data: return JSONResponse(...)
RespondNoQuestions ==
    /\ pc = "files" /\ fileIdx > Len(files)
    /\ all_questions_data = <<>>
    /\ response' = EmptyResponse(processing_results)
    /\ pc' = "responded"
    /\ UNCHANGED <<files, fileIdx, all_questions_data, processing_results,
                   extraction, encodeCalls, encodeBatch, embeddings, simCalls,
                   loopVars, returned, normVars>>

\* frequent_questions = await analyze_frequent_questions(all_questions_data)
CallAnalyze ==
    /\ pc = "files" /\ fileIdx > Len(files)
    /\ all_questions_data # <<>>
    /\ pc' = "called"
    /\ UNCHANGED <<files, fileIdx, all_questions_data, processing_results,
                   extraction, encodeCalls, encodeBatch, embeddings, simCalls,
                   loopVars, returned, response, normVars>>

(***************************************************************************)
(* analyze_frequent_questions                                              *)
(***************************************************************************)
PoolSize == Len(all_questions_data)

\* if not questions_data: return []
ReturnEmpty ==
    /\ pc = "called" /\ all_questions_data = <<>>
    /\ returned' = <<>>
    /\ pc' = "returned"
    /\ UNCHANGED <<files, fileIdx, all_questions_data, processing_results,
                   extraction, encodeCalls, encodeBatch, embeddings, simCalls,
                   loopVars, response, normVars>>

\* faulty variant: the original texts are encoded
original_questions(questions_data) ==
    [k \in 1..Len(questions_data) |-> questions_data[k].original]

\* normalized_questions = [q["normalized"] for q in questions_data]
normalized_questions(questions_data) ==
    [k \in 1..Len(questions_data) |-> questions_data[k].normalized]

\* embeddings = model.encode(normalized_questions, convert_to_tensor=True)
Encode ==
    /\ pc = "called" /\ all_questions_data # <<>>
    /\ encodeCalls' = encodeCalls + 1
    /\ encodeBatch' = normalized_questions(all_questions_data)
    /\ embeddings' \in [Pairs(PoolSize) -> SimValues]
    /\ groups' = <<>> /\ used_indices' = {} /\ i' = 1
    /\ pc' = "outer"
    /\ UNCHANGED <<files, fileIdx, all_questions_data, processing_results,
                   extraction, simCalls, j, group, returned, response, normVars>>

EncodeRaises ==
    /\ pc = "called" /\ all_questions_data # <<>>
    /\ encodeCalls' = encodeCalls + 1
    /\ encodeBatch' = normalized_questions(all_questions_data)
    /\ pc' = "raised"
    /\ UNCHANGED <<files, fileIdx, all_questions_data, processing_results,
                   extraction, embeddings, simCalls, loopVars, returned,
                   response, normVars>>

\* if i in used_indices: continue
SkipUsedSeed ==
    /\ pc = "outer" /\ i <= PoolSize
    /\ i \in used_indices
    /\ i' = i + 1
    /\ UNCHANGED <<files, fileIdx, all_questions_data, processing_results,
                   extraction, pc, encodeCalls, encodeBatch, embeddings, simCalls,
                   groups, used_indices, j, group, returned, response, normVars>>

NewGroup(k, question_data) ==
    [main_question |-> question_data.normalized,
     variants |-> <<question_data.original>>,
     source_files |-> <<question_data.source_file>>,
     frequency |-> 1,
     question_ids |-> <<question_data.question_id>>,
     members |-> <<k>>,       \* pool positions appended, in order (history)
     unique_sources |-> 0,    \* not set yet
     rank |-> 0]              \* not set yet

\* faulty variant: the position is not recorded as used
MarkUsedForgets(used, k) == used

\* used_indices.add(k)
MarkUsed(used, k) == used \cup {k}

OpenGroup ==
    /\ pc = "outer" /\ i <= PoolSize
    /\ i \notin used_indices
    /\ group' = NewGroup(i, all_questions_data[i])
    /\ used_indices' = MarkUsed(used_indices, i)
    /\ j' = i + 1
    /\ pc' = "inner"
    /\ UNCHANGED <<files, fileIdx, all_questions_data, processing_results,
                   extraction, encodeCalls, encodeBatch, embeddings, simCalls,
                   groups, i, returned, response, normVars>>

\* if j in used_indices: continue
SkipUsedCandidate ==
    /\ pc = "inner" /\ j <= PoolSize
    /\ j \in used_indices
    /\ j' = j + 1
    /\ UNCHANGED <<files, fileIdx, all_questions_data, processing_results,
                   extraction, pc, encodeCalls, encodeBatch, embeddings, simCalls,
                   groups, used_indices, i, group, returned, response, normVars>>

\* faulty variant: compares with the member added last instead of the seed
cos_sim_to_last(a, b) == embeddings[<<group.members[Len(group.members)], b>>]

\* util.cos_sim(embeddings[a], embeddings[b]).item(), in hundredths
cos_sim(a, b) == embeddings[<<a, b>>]

\* faulty variant: strict comparison with the threshold
IsSimilarStrict(similarity) == similarity > similarity_threshold

\* if similarity >= similarity_threshold
IsSimilar(similarity) == similarity >= similarity_threshold

AddVariant(g, k, question_data) ==
    [g EXCEPT !.variants = Append(@, question_data.original),
              !.source_files = Append(@, question_data.source_file),
              !.question_ids = Append(@, question_data.question_id),
              !.frequency = @ + 1,
              !.members = Append(@, k)]

Compare ==
    /\ pc = "inner" /\ j <= PoolSize
    /\ j \notin used_indices
    /\ simCalls' = simCalls + 1
    /\ IF IsSimilar(cos_sim(i, j))
       THEN /\ group' = AddVariant(group, j, all_questions_data[j])
            /\ used_indices' = MarkUsed(used_indices, j)
       ELSE UNCHANGED <<group, used_indices>>
    /\ j' = j + 1
    /\ UNCHANGED <<files, fileIdx, all_questions_data, processing_results,
                   extraction, pc, encodeCalls, encodeBatch, embeddings, groups,
                   i, returned, response, normVars>>

CompareRaises ==
    /\ pc = "inner" /\ j <= PoolSize
    /\ j \notin used_indices
    /\ simCalls' = simCalls + 1
    /\ pc' = "raised"
    /\ UNCHANGED <<files, fileIdx, all_questions_data, processing_results,
                   extraction, encodeCalls, encodeBatch, embeddings, loopVars,
                   returned, response, normVars>>

SeqToSet(s) == {s[k] : k \in 1..Len(s)}

\* faulty variant: singleton groups are kept
KeepGroupAlways(g) == g.frequency >= 1

\* if group["frequency"] >= 2
KeepGroup(g) == g.frequency >= 2

\* source_files = list(set(source_files)); unique_sources = len(source_files)
Finished(g) ==
    [g EXCEPT !.source_files = SeqToSet(@),
              !.unique_sources = Cardinality(SeqToSet(g.source_files))]

CloseGroup ==
    /\ pc = "inner" /\ j > PoolSize
    /\ groups' = IF KeepGroup(group) THEN Append(groups, Finished(group)) ELSE groups
    /\ i' = i + 1
    /\ pc' = "outer"
    /\ UNCHANGED <<files, fileIdx, all_questions_data, processing_results,
                   extraction, encodeCalls, encodeBatch, embeddings, simCalls,
                   used_indices, j, group, returned, response, normVars>>

RECURSIVE InsertDesc(_, _)
\* g put behind every group of sorted whose frequency is not smaller
InsertDesc(sorted, g) ==
    IF sorted = <<>> THEN <<g>>
    ELSE IF Head(sorted).frequency >= g.frequency
         THEN <<Head(sorted)>> \o InsertDesc(Tail(sorted), g)
         ELSE <<g>> \o sorted

RECURSIVE SortFrom(_, _, _)
SortFrom(gs, k, sorted) ==
    IF k > Len(gs) THEN sorted ELSE SortFrom(gs, k + 1, InsertDesc(sorted, gs[k]))

\* faulty variant: the groups are left in seed order
SortGroupsSkipped(gs) == gs

\* groups.sort(key=lambda x: x["frequency"], reverse=True): stable
SortGroups(gs) == SortFrom(gs, 1, <<>>)

\* for i, group in enumerate(groups): group["rank"] = i + 1
AssignRanks(gs) == [k \in 1..Len(gs) |-> [gs[k] EXCEPT !.rank = k]]

SortAndReturn ==
    /\ pc = "outer" /\ i > PoolSize
    /\ groups' = AssignRanks(SortGroups(groups))
    /\ returned' = groups'
    /\ pc' = "returned"
    /\ UNCHANGED <<files, fileIdx, all_questions_data, processing_results,
                   extraction, encodeCalls, encodeBatch, embeddings, simCalls,
                   used_indices, i, j, group, response, normVars>>

(***************************************************************************)
(* analyze_question_papers: the answer                                     *)
(***************************************************************************)
CountStatus(results, status) ==
    Cardinality({k \in 1..Len(results) : results[k].status = status})

FullResponse(frequent_questions) ==
    [status |-> 200,
     message |-> <<"Analyzed", Len(files), "files">>,
     total_questions_found |-> Len(all_questions_data),
     processing_results |-> processing_results,
     frequent_questions |-> frequent_questions,
     summary |-> [total_files |-> Len(files),
                  successful_files |-> CountStatus(processing_results, "success"),
                  failed_files |-> CountStatus(processing_results, "error"),
                  unique_question_groups |-> Len(frequent_questions)]]

Respond ==
    /\ pc = "returned"
    /\ response' = FullResponse(returned)
    /\ pc' = "responded"
    /\ UNCHANGED <<files, fileIdx, all_questions_data, processing_results,
                   extraction, encodeCalls, encodeBatch, embeddings, simCalls,
                   loopVars, returned, normVars>>

\* faulty variant: the groups built before the failure are answered
PartialResponse(gs) == [status |-> 200, frequent_questions |-> gs]

\* what the caller gets when the await at line 110 raises: nothing of the
\* groups built so far (gs) is answered
FailureResponse(gs) == [status |-> 500, detail |-> "Internal Server Error"]

\* no handler around the call: the exception leaves analyze_question_papers
Propagate ==
    /\ pc = "raised"
    /\ response' = FailureResponse(groups)
    /\ pc' = "failed"
    /\ UNCHANGED <<files, fileIdx, all_questions_data, processing_results,
                   extraction, encodeCalls, encodeBatch, embeddings, simCalls,
                   loopVars, returned, normVars>>

\* Inputs of the text functions: every sequence of at most MaxLen atoms of a
\* small alphabet, and every text of at most MaxLines sample lines.
NormAtoms == {"short", "define", "x", " ", "5", "marks", "?", "."}

RECURSIVE SeqsUpTo(_, _)
SeqsUpTo(S, n) ==
    IF n = 0 THEN {<<>>}
    ELSE LET shorter == SeqsUpTo(S, n - 1)
         IN shorter \cup {Append(s, a) : s \in {t \in shorter : Len(t) = n - 1}, a \in S}

SampleLines ==
    { <<"What", " ", "is", " ", "photosynthesis", "?">>,
      <<"1", ".", " ", "Define", " ", "photosynthesis", ".">>,
      <<"Explain", " ", "x", " ", "(", "10", " ", "marks", ")">>,
      <<"State", ".", "x">>,
      <<"Notes", " ", "on", " ", "x">>,
      <<"x", "?">> }

RECURSIVE JoinLines(_)
JoinLines(ls) ==
    IF Len(ls) = 1 THEN ls[1] ELSE ls[1] \o <<NL>> \o JoinLines(Tail(ls))

SampleTexts == {JoinLines(ls) : ls \in SeqsUpTo(SampleLines, MaxLines) \ {<<>>}}

NormInputs == SeqsUpTo(NormAtoms, MaxLen) \cup SampleTexts

(***************************************************************************)
(* Specifications.                                                         *)
(***************************************************************************)
RunIdle ==
    /\ files = <<>> /\ fileIdx = 1 /\ all_questions_data = <<>>
    /\ processing_results = <<>> /\ extraction = <<>> /\ pc = "idle"
    /\ encodeCalls = 0 /\ encodeBatch = <<>> /\ embeddings = <<>>
    /\ simCalls = 0 /\ groups = <<>> /\ used_indices = {} /\ i = 1 /\ j = 1
    /\ group = NoGroup /\ returned = <<>> /\ response = NoResponse

NormIdle ==
    /\ nText = <<>> /\ nPc = "idle"
    /\ nOnce = NoText /\ nTwice = NoText /\ nQuestions = <<>> /\ nQNorm = <<>>

\* An analysis run: a request with any upload list of at most MaxFiles files.
Init ==
    /\ files \in SeqsUpTo(FileNames, MaxFiles)
    /\ fileIdx = 1 /\ all_questions_data = <<>>
    /\ processing_results = <<>> /\ extraction = <<>> /\ pc = "start"
    /\ encodeCalls = 0 /\ encodeBatch = <<>> /\ embeddings = <<>>
    /\ simCalls = 0 /\ groups = <<>> /\ used_indices = {} /\ i = 1 /\ j = 1
    /\ group = NoGroup /\ returned = <<>> /\ response = NoResponse
    /\ NormIdle

Next ==
    \/ RejectNoFiles \/ AcceptFiles
    \/ SkipNonPdf \/ ProcessPdf \/ ProcessPdfRaises
    \/ RespondNoQuestions \/ CallAnalyze
    \/ Encode \/ EncodeRaises
    \/ SkipUsedSeed \/ OpenGroup \/ SkipUsedCandidate
    \/ Compare \/ CompareRaises \/ CloseGroup
    \/ SortAndReturn \/ Respond \/ Propagate

Spec == Init /\ [][Next]_vars

\* A call of analyze_frequent_questions on any pool of at most MaxPool
\* candidates that come from two documents in turn.
SampleTopics == <<"a", "b", "c", "d", "e", "f", "g", "h">>

SampleCandidate(k) ==
    LET filename == IF k % 2 = 1 THEN <<"a", ".pdf">> ELSE <<"b", ".PDF">>
        original == <<"Define", " ", "x", " ", SampleTopics[k], "?">>
    IN [original |-> original,
        normalized |-> normalize_question(original),
        source_file |-> filename,
        question_id |-> <<filename, (k + 1) \div 2>>]

ClusterInit ==
    /\ \E n \in 0..MaxPool : all_questions_data = [k \in 1..n |-> SampleCandidate(k)]
    /\ files = <<>> /\ fileIdx = 1
    /\ processing_results = <<>> /\ extraction = <<>> /\ pc = "called"
    /\ encodeCalls = 0 /\ encodeBatch = <<>> /\ embeddings = <<>>
    /\ simCalls = 0 /\ groups = <<>> /\ used_indices = {} /\ i = 1 /\ j = 1
    /\ group = NoGroup /\ returned = <<>> /\ response = NoResponse
    /\ NormIdle

ClusterNext ==
    \/ ReturnEmpty
    \/ Encode \/ EncodeRaises
    \/ SkipUsedSeed \/ OpenGroup \/ SkipUsedCandidate
    \/ Compare \/ CompareRaises \/ CloseGroup
    \/ SortAndReturn

SpecCluster == ClusterInit /\ [][ClusterNext]_vars

\* The text functions applied to any input text.
NormInit ==
    /\ nText \in NormInputs
    /\ nPc = "start"
    /\ nOnce = NoText /\ nTwice = NoText /\ nQuestions = <<>> /\ nQNorm = <<>>
    /\ RunIdle

Normalize ==
    /\ nPc = "start"
    /\ nOnce' = normalize_question(nText)
    /\ nPc' = "normalized"
    /\ UNCHANGED <<nText, nTwice, nQuestions, nQNorm, runVars>>

NormalizeAgain ==
    /\ nPc = "normalized"
    /\ nTwice' = normalize_question(nOnce)
    /\ nPc' = "renormalized"
    /\ UNCHANGED <<nText, nOnce, nQuestions, nQNorm, runVars>>

Extract ==
    /\ nPc = "renormalized"
    /\ nQuestions' = extract_questions(nText)
    /\ nPc' = "extracted"
    /\ UNCHANGED <<nText, nOnce, nTwice, nQNorm, runVars>>

NormalizeExtracted ==
    /\ nPc = "extracted"
    /\ nQNorm' = [k \in 1..Len(nQuestions) |-> normalize_question(nQuestions[k])]
    /\ nPc' = "done"
    /\ UNCHANGED <<nText, nOnce, nTwice, nQuestions, runVars>>

NormNext == Normalize \/ NormalizeAgain \/ Extract \/ NormalizeExtracted

SpecNorm == NormInit /\ [][NormNext]_vars

(***************************************************************************)
(* Properties.                                                             *)
(***************************************************************************)
\* the similarity model.encode fixed for positions a < b, in hundredths
Similarity(a, b) == embeddings[<<a, b>>]

RECURSIVE Concat(_)
Concat(ss) == IF ss = <<>> THEN <<>> ELSE Head(ss) \o Concat(Tail(ss))

NoRepeat(s) == \A a, b \in 1..Len(s) : a # b => s[a] # s[b]

Increasing(s) == \A a, b \in 1..Len(s) : a < b => s[a] < s[b]

\* the groups that exist in the current state: those emitted and the one
\* being built
LiveGroups ==
    IF pc = "inner" \/ (pc = "raised" /\ simCalls > 0)
    THEN Append(groups, group) ELSE groups

AllMembers(gs) == Concat([k \in 1..Len(gs) |-> gs[k].members])

InGroupOf(gs, a) == \E k \in 1..Len(gs) : a \in SeqToSet(gs[k].members)

\* members names the pool positions behind question_ids and variants
MembersMatch(g) ==
    /\ Len(g.question_ids) = Len(g.members)
    /\ Len(g.variants) = Len(g.members)
    /\ \A k \in 1..Len(g.members) :
         /\ g.members[k] \in 1..PoolSize
         /\ g.question_ids[k] = all_questions_data[g.members[k]].question_id
         /\ g.variants[k] = all_questions_data[g.members[k]].original

InClustering == pc \in {"outer", "inner", "raised", "returned"}

\* C1: at every step of the clustering loop and in the returned list, each
\* pool position occurs at most once over the members of all groups (and so
\* never twice in one group).
C1_Partition ==
    InClustering =>
        /\ \A k \in 1..Len(LiveGroups) : MembersMatch(LiveGroups[k])
        /\ NoRepeat(AllMembers(LiveGroups))
        /\ (HasReturned => NoRepeat(AllMembers(returned)))

\* two groups were returned
C1_Witness == HasReturned /\ Len(returned) >= 2

\* C2: the returned list is ordered by frequency non-increasing, groups of
\* equal frequency are in the order of their seeds, and the group at
\* position p has rank p.
C2_Ordering ==
    HasReturned =>
        /\ \A p \in 1..Len(returned) : returned[p].rank = p
        /\ \A p, q \in 1..Len(returned) :
             p < q =>
               /\ returned[p].frequency >= returned[q].frequency
               /\ (returned[p].frequency = returned[q].frequency
                     => returned[p].members[1] < returned[q].members[1])

\* the sort moved a later seed's group in front of an earlier seed's group
C2_Witness ==
    /\ HasReturned /\ Len(returned) >= 2
    /\ returned[1].members[1] > returned[2].members[1]

\* C3: every group emitted, during the loop and in the returned list, has
\* frequency >= 2 (and that many members).
C3_MinimumSize ==
    /\ \A k \in 1..Len(groups) :
         groups[k].frequency >= 2 /\ Len(groups[k].members) = groups[k].frequency
    /\ (HasReturned =>
          \A k \in 1..Len(returned) :
             returned[k].frequency >= 2
             /\ Len(returned[k].members) = returned[k].frequency)

\* a group was returned while some seed attracted nobody and is absent
C3_Witness ==
    /\ HasReturned /\ Len(returned) >= 1
    /\ \E a \in 1..PoolSize : ~InGroupOf(returned, a)

\* the members the seed s must have, given the groups gs of earlier seeds
SeedFollowers(gs, s) ==
    {b \in (s + 1)..PoolSize :
        /\ Similarity(s, b) >= similarity_threshold
        /\ ~\E k \in 1..Len(gs) :
              gs[k].members[1] < s /\ b \in SeqToSet(gs[k].members)}

SeedDetermines(gs, g) ==
    LET s == g.members[1] IN
    /\ Increasing(g.members)
    /\ SeqToSet(g.members) = {s} \cup SeedFollowers(gs, s)
    /\ g.main_question = all_questions_data[s].normalized

\* C9: a group of seed s consists of s followed, in pool order, by exactly
\* the later positions that were unused when s was processed and are at or
\* above the threshold to s; the seed supplies main_question.
C9_SeedOnly ==
    /\ \A k \in 1..Len(groups) : SeedDetermines(groups, groups[k])
    /\ (HasReturned =>
          \A k \in 1..Len(returned) : SeedDetermines(returned, returned[k]))

\* a returned group has a member b that is similar to a later position c, and
\* c, below the threshold to the seed and unused, stayed outside the group
C9_Witness ==
    /\ HasReturned
    /\ \E k \in 1..Len(returned) :
         LET g == returned[k] IN
         \E m \in 2..Len(g.members) : \E c \in (g.members[m] + 1)..PoolSize :
            /\ Similarity(g.members[m], c) >= similarity_threshold
            /\ Similarity(g.members[1], c) < similarity_threshold
            /\ ~InGroupOf(returned, c)

\* C10: when analyze_frequent_questions returns, of any two pool positions
\* at or above the threshold to each other at least one is in a returned
\* group.
C10_Coverage ==
    HasReturned =>
        \A pr \in Pairs(PoolSize) :
           Similarity(pr[1], pr[2]) >= similarity_threshold
              => InGroupOf(returned, pr[1]) \/ InGroupOf(returned, pr[2])

\* a similar pair of which only the later position is in a returned group
C10_Witness ==
    /\ HasReturned
    /\ \E pr \in Pairs(PoolSize) :
          /\ Similarity(pr[1], pr[2]) >= similarity_threshold
          /\ ~InGroupOf(returned, pr[1])
          /\ InGroupOf(returned, pr[2])

\* the run got past the 'no files' check and ended, with an answer or an error
RunEnded == files # <<>> /\ pc \in {"responded", "failed"}

\* C5 as stated: every run that gets past the 'no files' check calls
\* model.encode exactly once, runs with an empty pool included.
C5_OncePerRun == RunEnded => encodeCalls = 1

\* C5, amended: model.encode is called at most once; a run with a non-empty
\* pool calls it exactly once, after the last document was handled, with the
\* normalized strings of the whole pool, and before the first similarity
\* comparison; a run with an empty pool does not call it.
C5_OncePerNonEmptyPool ==
    /\ encodeCalls <= 1
    /\ (RunEnded /\ all_questions_data # <<>> => encodeCalls = 1)
    /\ (RunEnded /\ all_questions_data = <<>> => encodeCalls = 0)
    /\ (encodeCalls = 1 =>
          /\ fileIdx = Len(files) + 1
          /\ Len(encodeBatch) = PoolSize
          /\ \A k \in 1..PoolSize : encodeBatch[k] = all_questions_data[k].normalized)
    /\ (simCalls > 0 => encodeCalls = 1)

\* a run over candidates of two documents answered after comparing
C5_Witness ==
    /\ pc = "responded" /\ encodeCalls = 1 /\ simCalls > 0
    /\ \E a, b \in 1..PoolSize :
          all_questions_data[a].source_file # all_questions_data[b].source_file

\* the candidates the documents handled so far put into the pool
RECURSIVE PooledUpTo(_)
PooledUpTo(k) ==
    IF k = 0 THEN <<>>
    ELSE PooledUpTo(k - 1) \o
         (IF extraction[k].kind = "ok" THEN extraction[k].questions ELSE <<>>)

ExpectedStatus(kind) ==
    CASE kind = "ok" -> "success" [] kind = "notpdf" -> "skipped" [] kind = "raised" -> "error"

\* C6: a document whose extraction raises gets exactly one entry, of status
\* error with a reason, adds nothing to the pool and does not end the loop:
\* every document has its own entry when the loop is left, and the pool is
\* the candidates of the successful documents in upload order.
C6_ErrorIsPerDocument ==
    /\ Len(processing_results) = Len(extraction)
    /\ Len(extraction) = fileIdx - 1
    /\ \A k \in 1..Len(extraction) :
         /\ processing_results[k].filename = files[k]
         /\ processing_results[k].status = ExpectedStatus(extraction[k].kind)
         /\ (extraction[k].kind = "raised" =>
               processing_results[k].reason \in ErrorReasons)
    /\ all_questions_data = PooledUpTo(Len(extraction))
    /\ (pc \notin {"start", "files", "idle"} /\ files # <<>> =>
          Len(processing_results) = Len(files))

\* a document raised, a later one was pooled, and the run was answered
C6_Witness ==
    /\ pc = "responded"
    /\ \E a, b \in 1..Len(extraction) :
          a < b /\ extraction[a].kind = "raised" /\ extraction[b].kind = "ok"
    /\ all_questions_data # <<>>
    /\ response.processing_results = processing_results

\* C7: when model.encode or a similarity computation raises, the run ends
\* with one error and no answer that carries groups; frequent_questions is
\* only ever answered by a run that did not fail.
C7_FailsAsAWhole ==
    /\ (pc = "raised" => response = NoResponse)
    /\ (pc = "failed" /\ files # <<>> =>
          /\ response.status = 500
          /\ "frequent_questions" \notin DOMAIN response)
    /\ ("frequent_questions" \in DOMAIN response =>
          /\ pc = "responded"
          /\ response.status = 200
          /\ (encodeCalls > 0 => response.frequent_questions = returned))

\* a similarity computation raised after a group had been emitted
C7_Witness == pc = "failed" /\ simCalls > 0 /\ groups # <<>>

ScenarioA ==
    <<"What", " ", "is", " ", "photosynthesis", "?", NL,
      "1", ".", " ", "Define", " ", "photosynthesis", ".">>

\* C8 as stated: both lines of scenario A are emitted and both normalize to
\* "what is photosynthesis?".
C8_BothNormalizeAlike ==
    nPc = "done" /\ nText = ScenarioA =>
        /\ Len(nQuestions) = 2
        /\ nQNorm = << <<"what", " ", "is", " ", "photosynthesis", "?">>,
                       <<"what", " ", "is", " ", "photosynthesis", "?">> >>

\* C8, amended: both lines are emitted, the second with '?' appended; the
\* first normalizes to "what is photosynthesis?" and the second to
\* "what is photosynthesis.?", the full stop kept.
C8_ScenarioA ==
    nPc = "done" /\ nText = ScenarioA =>
        /\ nQuestions =
             << <<"What", " ", "is", " ", "photosynthesis", "?">>,
                <<"1", ".", " ", "Define", " ", "photosynthesis", ".", "?">> >>
        /\ nQNorm = << <<"what", " ", "is", " ", "photosynthesis", "?">>,
                       <<"what", " ", "is", " ", "photosynthesis", ".", "?">> >>

C8_Witness == nPc = "done" /\ nText = ScenarioA /\ Len(nQNorm) = 2

\* C4: normalize_question is idempotent.
C4_Idempotent == nPc \in {"renormalized", "extracted", "done"} => nTwice = nOnce
=============================================================================
